---------------------------- MODULE Spec2Model ----------------------------
(***************************************************************************)
(* The shop ledger of app.py: the AutoRepairShop store (parts, services,   *)
(* customers, invoices), its load_data / save_data pair, the sample-data   *)
(* initializer and the two add forms, over the four JSON files of data/.   *)
(*                                                                         *)
(* Numbers are kept exact: a price is held in cents and a tax rate in      *)
(* percent (15.99 is 1599, 0.1 is 10).                                     *)
(***************************************************************************)
EXTENDS Integers, Sequences, FiniteSets, TLC

VARIABLES
    disk,       \* data/<file> -> the content of the file
    dataDir,    \* os.path.exists('data')
    shop,       \* per session: the AutoRepairShop object (self)
    pc,         \* per session: "start", "load", "ready", "failed", "save", "crashed"
    idx,        \* per session: position of the running for loop (1..4)
    initRuns,   \* per session: calls of initialize_sample_data by this object
    opsDone,    \* per session: add submissions whose save_data returned
    lastOp,     \* per session: the last accepted add submission
    before,     \* per session: the store as it was before the last add
    saveStart,  \* per session: the files as they were when the running save began
    lastWriter, \* per file: the session that wrote it last
    wrote,      \* per session: has written a file
    loadSnap    \* per session: the files as they were when its load began

progVars == <<disk, dataDir, shop, pc, idx, initRuns>>
obsVars == <<opsDone, lastOp, before, saveStart, lastWriter, wrote, loadSnap>>
vars == <<disk, dataDir, shop, pc, idx, initRuns,
          opsDone, lastOp, before, saveStart, lastWriter, wrote, loadSnap>>

Sessions == {"s1", "s2"}

\* Add submissions accepted in one run, over all sessions.
MaxOps == 2

---------------------------------------------------------------------------
(* Record types (the dataclasses)                                          *)

PartCls ==
    [fields |-> {"id", "name", "price", "quantity", "reorder_level", "tax_rate"},
     defaults |-> [tax_rate |-> 10]]

ServiceCls ==
    [fields |-> {"id", "name", "base_price", "tax_rate"},
     defaults |-> [tax_rate |-> 10]]

CustomerCls ==
    [fields |-> {"id", "name", "phone", "vehicle_number", "vehicle_model", "email"},
     defaults |-> [vehicle_model |-> "", email |-> ""]]

\* Part(id, name, price, quantity, reorder_level, tax_rate=0.1)
Part(id, name, price, quantity, reorder_level, tax_rate) ==
    [id |-> id, name |-> name, price |-> price, quantity |-> quantity,
     reorder_level |-> reorder_level, tax_rate |-> tax_rate]

\* Service(id, name, base_price, tax_rate=0.1)
Service(id, name, base_price, tax_rate) ==
    [id |-> id, name |-> name, base_price |-> base_price, tax_rate |-> tax_rate]

\* Customer(id, name, phone, vehicle_number, vehicle_model="", email="")
Customer(id, name, phone, vehicle_number, vehicle_model, email) ==
    [id |-> id, name |-> name, phone |-> phone, vehicle_number |-> vehicle_number,
     vehicle_model |-> vehicle_model, email |-> email]

\* cls(**item) raises TypeError unless every key is a field and every field
\* without a default is given.
CanConstruct(cls, item) ==
    /\ DOMAIN item \subseteq cls.fields
    /\ (cls.fields \ DOMAIN cls.defaults) \subseteq DOMAIN item

\* cls(**item): the fields given, the defaults for the others.
FromItem(cls, item) ==
    [f \in cls.fields |-> IF f \in DOMAIN item THEN item[f] ELSE cls.defaults[f]]

\* vars(record): every attribute of the record.
Vars(rec) == [f \in DOMAIN rec |-> rec[f]]

EmptyMap == <<>>

\* An empty dict or list is false in Python.
Falsy(c) == DOMAIN c = {}

\* Variant: the container rebound to the one new record.
UpsertClobber(coll, id, rec) == (id :> rec)

\* container[id] = record
Upsert(coll, id, rec) == (id :> rec) @@ coll

\* container.update(new)
Update(coll, new) == new @@ coll

---------------------------------------------------------------------------
(* Files                                                                    *)

FileNames == <<"parts.json", "services.json", "customers.json", "invoices.json">>

NumFiles == 4

Absent == [kind |-> "absent"]
\* A file that is not JSON.
Garbage == [kind |-> "garbage"]
JObject(m) == [kind |-> "object", val |-> m]
JArray(q) == [kind |-> "array", val |-> q]

\* A Python value handed to json.dump: a dict or a list.
PyDict(m) == [list |-> FALSE, val |-> m]
PyList(q) == [list |-> TRUE, val |-> q]

\* json.dump(data, f): a dict is written as an object, a list as an array.
JsonDump(data) == IF data.list THEN JArray(data.val) ELSE JObject(data.val)

\* json.load(f) raises on a file that is not JSON.
Parseable(content) == content.kind \in {"object", "array"}

\* The attribute of the store behind each file.
Collection(store, i) ==
    CASE i = 1 -> store.parts
      [] i = 2 -> store.services
      [] i = 3 -> store.customers
      [] i = 4 -> store.invoices

SetCollection(store, i, c) ==
    CASE i = 1 -> [store EXCEPT !.parts = c]
      [] i = 2 -> [store EXCEPT !.services = c]
      [] i = 3 -> [store EXCEPT !.customers = c]
      [] i = 4 -> [store EXCEPT !.invoices = c]

ClsOf(i) ==
    CASE i = 1 -> PartCls
      [] i = 2 -> ServiceCls
      [] i = 3 -> CustomerCls

\* __init__: four empty collections.
NewShop == [parts |-> EmptyMap, services |-> EmptyMap,
            customers |-> EmptyMap, invoices |-> <<>>]

---------------------------------------------------------------------------
(* Sample data                                                              *)

SampleParts ==
    ("P001" :> Part("P001", "Oil Filter", 1599, 50, 10, 10))
    @@ ("P002" :> Part("P002", "Brake Pad", 4599, 30, 8, 10))
    @@ ("P003" :> Part("P003", "Engine Oil (1L)", 899, 100, 20, 10))

SampleServices ==
    ("S001" :> Service("S001", "Oil Change", 3000, 10))
    @@ ("S002" :> Service("S002", "Brake Service", 8000, 10))
    @@ ("S003" :> Service("S003", "General Inspection", 5000, 10))

\* initialize_sample_data: self.parts[part.id] = part, self.services[...] = ...
InitializeSampleData(store) ==
    [store EXCEPT !.parts = Update(store.parts, SampleParts),
                  !.services = Update(store.services, SampleServices)]

\* Variant: "or" in place of "and".
SampleGateEither(store) == Falsy(store.parts) \/ Falsy(store.services)

\* "if not self.parts and not self.services"
SampleGate(store) == Falsy(store.parts) /\ Falsy(store.services)

---------------------------------------------------------------------------
(* load_data                                                                *)

\* The value of entry i of the files dict (lines 51-56): a (container, cls)
\* pair for the three keyed files, the list self.invoices itself for the last.
FilesValue(store, i) ==
    CASE i = 1 -> <<"parts", "Part">>
      [] i = 2 -> <<"services", "Service">>
      [] i = 3 -> <<"customers", "Customer">>
      [] i = 4 -> store.invoices

\* "for filename, (container, cls) in files.items()": the value is unpacked
\* into two names, which raises ValueError unless it holds two elements.
Unpackable(v) == Len(v) = 2

\* The body of the try block runs to its end: the file is JSON and, for a
\* keyed file, an object whose every item the record constructor accepts.
CanLoad(i, content) ==
    /\ Parseable(content)
    /\ \/ i = NumFiles
       \/ /\ content.kind = "object"
          /\ \A k \in DOMAIN content.val : CanConstruct(ClsOf(i), content.val[k])

\* {id: cls(**item) for id, item in data.items()}
Deserialize(i, data) == [k \in DOMAIN data |-> FromItem(ClsOf(i), data[k])]

\* The end of one pass of a four-file loop.
Advance(s) ==
    IF idx[s] < NumFiles
    THEN /\ idx' = [idx EXCEPT ![s] = idx[s] + 1]
         /\ pc' = pc
    ELSE /\ idx' = idx
         /\ pc' = [pc EXCEPT ![s] = "ready"]

\* "if 'shop' not in st.session_state": AutoRepairShop() builds the empty
\* store and enters load_data, which makes the data directory.
Construct(s) ==
    /\ pc[s] = "start"
    /\ shop' = [shop EXCEPT ![s] = NewShop]
    /\ dataDir' = TRUE
    /\ pc' = [pc EXCEPT ![s] = "load"]
    /\ idx' = [idx EXCEPT ![s] = 1]
    /\ initRuns' = [initRuns EXCEPT ![s] = 0]
    /\ loadSnap' = [loadSnap EXCEPT ![s] = disk]
    /\ UNCHANGED <<disk, opsDone, lastOp, before, saveStart, lastWriter, wrote>>

\* One pass of the loop whose file opens and loads.
LoadPresent(s) ==
    /\ pc[s] = "load"
    /\ Unpackable(FilesValue(shop[s], idx[s]))
    /\ disk[FileNames[idx[s]]] # Absent
    /\ CanLoad(idx[s], disk[FileNames[idx[s]]])
    /\ LET i == idx[s]
           data == disk[FileNames[i]].val
       IN shop' = [shop EXCEPT ![s] =
                     IF i # NumFiles
                     THEN SetCollection(shop[s], i,
                            Update(Collection(shop[s], i), Deserialize(i, data)))
                     ELSE SetCollection(shop[s], i, data)]
    /\ Advance(s)
    /\ UNCHANGED <<disk, dataDir, initRuns>>
    /\ UNCHANGED obsVars

\* One pass of the loop whose file is absent: "except FileNotFoundError".
LoadMissing(s) ==
    /\ pc[s] = "load"
    /\ Unpackable(FilesValue(shop[s], idx[s]))
    /\ disk[FileNames[idx[s]]] = Absent
    /\ IF SampleGate(shop[s])
       THEN /\ shop' = [shop EXCEPT ![s] = InitializeSampleData(shop[s])]
            /\ initRuns' = [initRuns EXCEPT ![s] = initRuns[s] + 1]
       ELSE UNCHANGED <<shop, initRuns>>
    /\ Advance(s)
    /\ UNCHANGED <<disk, dataDir>>
    /\ UNCHANGED obsVars

\* Variant: every error of the try block swallowed, the loop goes on.
LoadMalformedSkip(s) ==
    /\ pc[s] = "load"
    /\ Unpackable(FilesValue(shop[s], idx[s]))
    /\ disk[FileNames[idx[s]]] # Absent
    /\ ~CanLoad(idx[s], disk[FileNames[idx[s]]])
    /\ Advance(s)
    /\ UNCHANGED <<disk, dataDir, shop, initRuns>>
    /\ UNCHANGED obsVars

\* One pass of the loop whose file is there and does not load: the error of
\* json.load, data.items() or cls(**item) is not caught, and the dict of
\* records is built whole before container.update sees it.
LoadMalformed(s) ==
    /\ pc[s] = "load"
    /\ Unpackable(FilesValue(shop[s], idx[s]))
    /\ disk[FileNames[idx[s]]] # Absent
    /\ ~CanLoad(idx[s], disk[FileNames[idx[s]]])
    /\ pc' = [pc EXCEPT ![s] = "failed"]
    /\ UNCHANGED <<disk, dataDir, shop, idx, initRuns>>
    /\ UNCHANGED obsVars

\* The pass of the loop whose value does not unpack: ValueError, outside the
\* try block.
LoadUnpackError(s) ==
    /\ pc[s] = "load"
    /\ ~Unpackable(FilesValue(shop[s], idx[s]))
    /\ pc' = [pc EXCEPT ![s] = "failed"]
    /\ UNCHANGED <<disk, dataDir, shop, idx, initRuns>>
    /\ UNCHANGED obsVars

---------------------------------------------------------------------------
(* Files found at startup                                                   *)

P9 == Part("P9", "Spark Plug", 500, 3, 5, 10)
S9 == Service("S9", "Tyre Rotation", 2500, 10)
Inv1 == [total |-> 100, tax |-> 10]
Inv2 == [total |-> 50, tax |-> 5]

PartsFiles ==
    {Absent, Garbage, JArray(<<>>), JObject(EmptyMap),
     JObject("P9" :> Vars(P9)),
     JObject(("P001" :> Vars(Part("P001", "Air Filter", 1200, 4, 2, 20)))
             @@ ("P9" :> [id |-> "P9", name |-> "Spark Plug", price |-> 500,
                          quantity |-> 3, reorder_level |-> 5])),
     JObject(("P9" :> Vars(P9))
             @@ ("P7" :> [id |-> "P7", name |-> "Wiper", quantity |-> 1,
                          reorder_level |-> 1, tax_rate |-> 10])),
     JObject("P7" :> [id |-> "P7", name |-> "Wiper", price |-> 300, quantity |-> 1,
                      reorder_level |-> 1, tax_rate |-> 10, colour |-> "black"])}

ServicesFiles ==
    {Absent, Garbage, JObject(EmptyMap),
     JObject("S9" :> Vars(S9)),
     JObject(("S001" :> Vars(Service("S001", "Oil Change Plus", 4000, 10)))
             @@ ("S9" :> Vars(S9))),
     JObject(("S9" :> Vars(S9)) @@ ("S7" :> [id |-> "S7", name |-> "Wash"]))}

CustomersFiles ==
    {Absent,
     JObject("C1" :> [id |-> "C1", name |-> "Ali", phone |-> "0300",
                      vehicle_number |-> "LEA-1"]),
     JObject("C1" :> [id |-> "C1", name |-> "Ali", vehicle_number |-> "LEA-1"])}

InvoicesFiles == {Absent, Garbage, JArray(<<Inv1, Inv2>>)}

NoSession == "none"
NoOp == [kind |-> "none"]

ObsInit ==
    /\ opsDone = [s \in Sessions |-> 0]
    /\ lastOp = [s \in Sessions |-> NoOp]
    /\ saveStart = [s \in Sessions |-> <<>>]
    /\ lastWriter = [i \in 1..NumFiles |-> NoSession]
    /\ wrote = [s \in Sessions |-> FALSE]
    /\ loadSnap = [s \in Sessions |-> <<>>]

\* The program at startup: no session has run the script yet.
Init ==
    /\ \E p \in PartsFiles, sv \in ServicesFiles, c \in CustomersFiles, v \in InvoicesFiles :
          disk = ("parts.json" :> p) @@ ("services.json" :> sv)
                 @@ ("customers.json" :> c) @@ ("invoices.json" :> v)
    /\ dataDir \in BOOLEAN
    /\ (\E i \in 1..NumFiles : disk[FileNames[i]] # Absent) => dataDir
    /\ shop = [s \in Sessions |-> NewShop]
    /\ before = [s \in Sessions |-> NewShop]
    /\ pc = [s \in Sessions |-> "start"]
    /\ idx = [s \in Sessions |-> 1]
    /\ initRuns = [s \in Sessions |-> 0]
    /\ ObsInit

Next ==
    \E s \in Sessions :
        \/ Construct(s)
        \/ LoadPresent(s)
        \/ LoadMissing(s)
        \/ LoadMalformed(s)
        \/ LoadUnpackError(s)

Spec == Init /\ [][Next]_vars

---------------------------------------------------------------------------
(* save_data and the add forms                                              *)

\* Variant: a save of the keyed collections only, the invoices written empty.
DataMappingNoInvoices(store) ==
    [i \in 1..NumFiles |->
        IF i = NumFiles
        THEN PyList(<<>>)
        ELSE PyDict([id \in DOMAIN Collection(store, i) |-> Vars(Collection(store, i)[id])])]

\* data_mapping (lines 76-81): the value written to each file.
DataMapping(store) ==
    [i \in 1..NumFiles |->
        IF i = NumFiles
        THEN PyList(store.invoices)
        ELSE PyDict([id \in DOMAIN Collection(store, i) |-> Vars(Collection(store, i)[id])])]

\* Variant: the files written last to first.
SaveOrderReversed(i) == NumFiles + 1 - i

\* The file the i-th pass of "for filename, data in data_mapping.items()" writes.
SaveOrder(i) == i

\* Variant: a read-modify-write that keeps the records already in the file.
WriteFileMerge(d, i, data) ==
    [d EXCEPT ![FileNames[i]] =
        IF d[FileNames[i]].kind = "object" /\ ~data.list
        THEN JObject(data.val @@ d[FileNames[i]].val)
        ELSE JsonDump(data)]

\* open(path, 'w') and json.dump: the file holds the dumped value and nothing else.
WriteFile(d, i, data) == [d EXCEPT ![FileNames[i]] = JsonDump(data)]

\* What the four files hold once save_data has returned.
SaveImage(store) ==
    [n \in {FileNames[i] : i \in 1..NumFiles} |->
        LET i == CHOOSE j \in 1..NumFiles : FileNames[j] = n
        IN JsonDump(DataMapping(store)[i])]

\* Add submissions accepted so far: the saves that returned and those begun.
RECURSIVE OpsStarted(_)
OpsStarted(S) ==
    IF S = {} THEN 0
    ELSE LET s == CHOOSE x \in S : TRUE
         IN opsDone[s] + (IF pc[s] \in {"save", "crashed"} THEN 1 ELSE 0)
            + OpsStarted(S \ {s})

\* The forms' check "if part_id and name": empty text is false.
Filled(id, name) == id # "" /\ name # ""

\* "Add Part" submitted with both required fields: the record is put in the
\* store and save_data starts.
AddPart(s, part_id, name, price, quantity, reorder_level, tax_rate) ==
    /\ pc[s] = "ready"
    /\ OpsStarted(Sessions) < MaxOps
    /\ Filled(part_id, name)
    /\ LET rec == Part(part_id, name, price, quantity, reorder_level, tax_rate)
       IN /\ shop' = [shop EXCEPT ![s].parts = Upsert(shop[s].parts, part_id, rec)]
          /\ lastOp' = [lastOp EXCEPT ![s] =
                          [kind |-> "part", id |-> part_id, rec |-> rec,
                           replaced |-> part_id \in DOMAIN shop[s].parts]]
    /\ before' = [before EXCEPT ![s] = shop[s]]
    /\ saveStart' = [saveStart EXCEPT ![s] = disk]
    /\ pc' = [pc EXCEPT ![s] = "save"]
    /\ idx' = [idx EXCEPT ![s] = 1]
    /\ UNCHANGED <<disk, dataDir, initRuns, opsDone, lastWriter, wrote, loadSnap>>

\* "Add Service" submitted with both required fields.
AddService(s, service_id, name, base_price, tax_rate) ==
    /\ pc[s] = "ready"
    /\ OpsStarted(Sessions) < MaxOps
    /\ Filled(service_id, name)
    /\ LET rec == Service(service_id, name, base_price, tax_rate)
       IN /\ shop' = [shop EXCEPT ![s].services = Upsert(shop[s].services, service_id, rec)]
          /\ lastOp' = [lastOp EXCEPT ![s] =
                          [kind |-> "service", id |-> service_id, rec |-> rec,
                           replaced |-> service_id \in DOMAIN shop[s].services]]
    /\ before' = [before EXCEPT ![s] = shop[s]]
    /\ saveStart' = [saveStart EXCEPT ![s] = disk]
    /\ pc' = [pc EXCEPT ![s] = "save"]
    /\ idx' = [idx EXCEPT ![s] = 1]
    /\ UNCHANGED <<disk, dataDir, initRuns, opsDone, lastWriter, wrote, loadSnap>>

\* Either form submitted with an empty id or name: st.error, nothing changes.
RejectSubmit(s, id, name) ==
    /\ pc[s] = "ready"
    /\ ~Filled(id, name)
    /\ UNCHANGED vars

\* One pass of the loop of save_data: one file is written whole. The data
\* directory is made before the first.
SaveWrite(s) ==
    /\ pc[s] = "save"
    /\ disk' = WriteFile(disk, SaveOrder(idx[s]), DataMapping(shop[s])[SaveOrder(idx[s])])
    /\ dataDir' = TRUE
    /\ lastWriter' = [lastWriter EXCEPT ![SaveOrder(idx[s])] = s]
    /\ wrote' = [wrote EXCEPT ![s] = TRUE]
    /\ IF idx[s] < NumFiles
       THEN /\ idx' = [idx EXCEPT ![s] = idx[s] + 1]
            /\ UNCHANGED <<pc, opsDone, before, saveStart>>
       ELSE /\ pc' = [pc EXCEPT ![s] = "ready"]
            /\ opsDone' = [opsDone EXCEPT ![s] = opsDone[s] + 1]
            /\ before' = [before EXCEPT ![s] = shop[s]]
            /\ saveStart' = [saveStart EXCEPT ![s] = <<>>]
            /\ idx' = idx
    /\ UNCHANGED <<shop, initRuns, lastOp, loadSnap>>

\* The process is stopped between two writes of save_data.
Crash(s) ==
    /\ pc[s] = "save"
    /\ idx[s] > 1
    /\ pc' = [pc EXCEPT ![s] = "crashed"]
    /\ UNCHANGED <<disk, dataDir, shop, idx, initRuns>>
    /\ UNCHANGED obsVars

---------------------------------------------------------------------------
(* A store in use                                                           *)

PartIdInputs == {"", "P001", "P9"}
ServiceIdInputs == {"", "S9"}
NameInputs == {"", "Item"}
PriceInputs == {700}

\* Populations of a store: empty, the sample data, and one of each kind.
StoresHeld ==
    {NewShop,
     InitializeSampleData(NewShop),
     [parts |-> "P9" :> P9, services |-> "S9" :> S9,
      customers |-> "C1" :> Customer("C1", "Ali", "0300", "LEA-1", "", ""),
      invoices |-> <<Inv1, Inv2>>]}

\* The files that are there at the start: none, the first two, all four.
FilesThere == {{}, {1, 2}, {1, 2, 3, 4}}

\* The store that load() is specified to hand to the pages: a population,
\* every file either absent or holding what the store holds. A session
\* either holds that store or has not run the script yet. (Under Spec no
\* session ever holds a store: load_data stops at LoadUnpackError. The add
\* forms and save_data are followed from here, as the code they are.)
StoreInit ==
    /\ \E held \in StoresHeld :
             /\ \E there \in FilesThere :
                   disk = [n \in DOMAIN SaveImage(held) |->
                             LET i == CHOOSE j \in 1..NumFiles : FileNames[j] = n
                             IN IF i \in there THEN SaveImage(held)[n] ELSE Absent]
             /\ \E late \in SUBSET {"s2"} :
                   /\ shop = [s \in Sessions |-> IF s \in late THEN NewShop ELSE held]
                   /\ pc = [s \in Sessions |-> IF s \in late THEN "start" ELSE "ready"]
    /\ before = shop
    /\ dataDir \in BOOLEAN
    /\ (\E i \in 1..NumFiles : disk[FileNames[i]] # Absent) => dataDir
    /\ idx = [s \in Sessions |-> 1]
    /\ initRuns = [s \in Sessions |-> 0]
    /\ ObsInit

StoreNext ==
    \E s \in Sessions :
        \/ Construct(s)
        \/ LoadPresent(s)
        \/ LoadMissing(s)
        \/ LoadUnpackError(s)
        \/ \E id \in PartIdInputs, name \in NameInputs, price \in PriceInputs :
              AddPart(s, id, name, price, 3, 5, 10)
        \/ \E id \in ServiceIdInputs, name \in NameInputs :
              AddService(s, id, name, 2600, 10)
        \/ \E id \in PartIdInputs \cup ServiceIdInputs, name \in NameInputs :
              RejectSubmit(s, id, name)
        \/ SaveWrite(s)
        \/ Crash(s)

SpecStore == StoreInit /\ [][StoreNext]_vars

---------------------------------------------------------------------------
(* Properties                                                               *)

FileAt(i) == disk[FileNames[i]]

\* A file that is there and holds at least one record.
HoldsRecords(content) == content.kind = "object" /\ DOMAIN content.val # {}

\* A file that is there and is not JSON, is not a mapping where one is
\* expected, or holds a record the record type does not accept.
Malformed(i, content) ==
    \/ content.kind = "garbage"
    \/ /\ i < NumFiles
       /\ \/ content.kind = "array"
          \/ /\ content.kind = "object"
             /\ \E k \in DOMAIN content.val : ~CanConstruct(ClsOf(i), content.val[k])

\* load_data has stopped, by returning or by raising.
LoadEnded(s) == pc[s] \in {"ready", "failed"}

\* The four files holding exactly a store: each keyed collection as a mapping
\* from id to the record's fields, the invoices as the list they are.
StoreOnDisk(store) ==
    ("parts.json" :> JObject(store.parts))
    @@ ("services.json" :> JObject(store.services))
    @@ ("customers.json" :> JObject(store.customers))
    @@ ("invoices.json" :> JArray(store.invoices))

SoleWriter(s) == \A t \in Sessions \ {s} : ~wrote[t]

\* C1: whatever files are absent or present and well-formed, load() returns,
\* and then every absent keyed file has left its collection empty or with the
\* sample data, and a present invoices file has given exactly its entries.
CexC1_LoadCompletes ==
    \A s \in Sessions :
        (/\ \A i \in 1..NumFiles : ~Malformed(i, FileAt(i))
         /\ LoadEnded(s))
        => /\ pc[s] = "ready"
           /\ FileAt(NumFiles) # Absent => shop[s].invoices = FileAt(NumFiles).val
           /\ FileAt(NumFiles) = Absent => shop[s].invoices = <<>>

CexC4_FirstRun ==
    \A s \in Sessions :
        (/\ \A i \in 1..NumFiles : FileAt(i) = Absent
         /\ LoadEnded(s))
        => /\ pc[s] = "ready"
           /\ initRuns[s] = 1
           /\ DOMAIN shop[s].parts = {"P001", "P002", "P003"}
           /\ DOMAIN shop[s].services = {"S001", "S002", "S003"}
           /\ Falsy(shop[s].customers) /\ Falsy(shop[s].invoices)

\* load_data is past the pass for services.json.
PastServices(s) == pc[s] \in {"load", "ready", "failed"} /\ idx[s] > 2

\* C5 as stated: with a parts file of any loadable content, an empty mapping
\* included, and no services file, once load() is past the services file
\* services is empty and the initializer has not run.
CexC5_AnyPartsFile ==
    \A s \in Sessions :
        (/\ FileAt(1).kind = "object" /\ ~Malformed(1, FileAt(1))
         /\ FileAt(2) = Absent
         /\ PastServices(s))
        => /\ Falsy(shop[s].services)
           /\ initRuns[s] = 0

\* C5 amended: with a parts file holding at least one record and no services
\* file, at every point of load(), where it stops included, services is empty,
\* the initializer has not run and parts holds only ids of the parts file.
ThmC5_NonEmptyPartsFile ==
    \A s \in Sessions :
        (HoldsRecords(FileAt(1)) /\ FileAt(2) = Absent)
        => /\ Falsy(shop[s].services)
           /\ initRuns[s] = 0
           /\ DOMAIN shop[s].parts \subseteq DOMAIN FileAt(1).val

WitC5_PartsLoadedNoServices ==
    \E s \in Sessions :
        /\ HoldsRecords(FileAt(1)) /\ FileAt(2) = Absent
        /\ pc[s] = "failed" /\ idx[s] = NumFiles
        /\ ~Falsy(shop[s].parts)

ThmC7_MalformedIsFatal ==
    \A s \in Sessions : \A i \in 1..NumFiles :
        Malformed(i, FileAt(i)) =>
            /\ pc[s] # "ready"
            /\ pc[s] \in {"load", "failed"} => idx[s] <= i
            /\ (pc[s] = "failed" /\ idx[s] = i /\ FileAt(i).kind = "object")
                 => \A k \in DOMAIN FileAt(i).val : k \notin DOMAIN Collection(shop[s], i)

WitC7_StoppedAtBadRecord ==
    \E s \in Sessions : \E i \in 1..NumFiles :
        /\ Malformed(i, FileAt(i)) /\ FileAt(i).kind = "object"
        /\ \E k \in DOMAIN FileAt(i).val : CanConstruct(ClsOf(i), FileAt(i).val[k])
        /\ pc[s] = "failed" /\ idx[s] = i

\* C8: when the parts file or the services file holds at least one record,
\* the initializer does not run during load().
CexC8_NoSamplesBesideRecords ==
    \A s \in Sessions :
        (HoldsRecords(FileAt(1)) \/ HoldsRecords(FileAt(2))) => initRuns[s] = 0

=============================================================================
